---- MODULE Spec2Model ----
(***************************************************************************)
(* The social-graph, messaging, notification and task-launch routes of     *)
(* app/main/routes.py, as a state machine over the persistent store.       *)
(*                                                                         *)
(* Request handlers work on a database session: what a handler adds        *)
(* (db.session.add, add_notification, launch_task) is pending in its own   *)
(* session and becomes part of the store at db.session.commit().  Routes   *)
(* whose body performs several store operations before the commit          *)
(* (send_message, messages, export_posts) are modelled one step per        *)
(* statement, so that the steps of concurrent handlers interleave.         *)
(*                                                                         *)
(*   Spec          messaging and the notification stream, concurrent       *)
(*                 handlers, the polling client                            *)
(*   SpecTasks     the task tracker, concurrent handlers, the background   *)
(*                 workers, the polling client                             *)
(*   SpecSeq       the social graph and messaging, one request at a time   *)
(*   SpecTasksSeq  the task tracker, one request at a time                 *)
(*   SpecFeed      the social graph, the post ledger and the home feed     *)
(*                                                                         *)
(* The methods of app/models.py (follow, unfollow, unread_message_count,   *)
(* add_notification, get_task_in_progress, launch_task) are not part of    *)
(* routes.py; they are modelled from the specification's sections 4.1,     *)
(* 4.4, 4.5 and 4.6, and following_posts from section 4.3.                 *)
(***************************************************************************)
EXTENDS Integers, Sequences, FiniteSets

\* ------------------------------------------------------------- bounds
\* Notifications ever published (committed or pending); every message and
\* every task comes with one, so this bounds messages and tasks as well.
MaxNotifs == 3
\* The last value of the wall clock.
MaxTime == 2
\* Posts ever created.
MaxPosts == 3
\* Posts on one page of the home feed, POSTS_PER_PAGE of the configuration.
PostsPerPage == 2

\* ------------------------------------------------------------- universe
Users == {"u1", "u2"}
\* Usernames a request may carry in its URL: the users and an unknown one.
Names == Users \cup {"nobody"}
\* Concurrent request handlers (each with its own database session).
Handlers == {"h1", "h2"}
\* The user whose polling client is observed.
ClientUser == "u1"

\* The texts a post may carry: one the language detector tells the language
\* of, one it finds no features in.
Bodies == {"hello", "1234"}
\* What detect() raises when it fails.
LangDetectException == "LangDetectException"

UNREAD == "unread_message_count"
EXPORT == "export_posts"

Max(a, b) == IF a >= b THEN a ELSE b

VARIABLES
    now,        \* the wall clock, datetime.now(timezone.utc)
    following,  \* follow edges: following[<<a, b>>] = number of rows (a follows b)
    msgs,       \* committed Message rows, in insertion order
    last_read,  \* last_message_read_time of every user (0: never read)
    notifs,     \* committed Notification rows, in insertion order
    tasks,      \* committed Task rows, in insertion order
    posts,      \* committed Post rows, in insertion order
    pc,         \* where every handler is in its route
    sess,       \* every handler's session: current_user and pending writes
    last,       \* the most recent response sent by any route
    since_seen, \* the polling client's largest received timestamp
    inbox       \* every record the polling client has received, in order

store == <<following, msgs, last_read, notifs, tasks, posts>>
client == <<since_seen, inbox>>
vars == <<now, following, msgs, last_read, notifs, tasks, posts, pc, sess,
          last, since_seen, inbox>>

\* ------------------------------------------------------------- sessions
\* A session with nothing pending.  user: the row the request works on (the
\* recipient in send_message, current_user elsewhere); lmrt = 0: the
\* watermark is not written.
EmptySession ==
    [user |-> "u1", msgs |-> <<>>, notifs |-> <<>>, tasks |-> <<>>, lmrt |-> 0]

\* What a handler's queries see: the committed rows and its own pending ones
\* (the session flushes before it queries).
VisibleMsgs(h) == msgs \o sess[h].msgs
VisibleNotifs(h) == notifs \o sess[h].notifs
VisibleTasks(h) == tasks \o sess[h].tasks
VisibleLastRead(h, u) ==
    IF sess[h].user = u /\ sess[h].lmrt # 0 THEN sess[h].lmrt ELSE last_read[u]

\* What a route answers: the route and the outcome of the request.
Response(op, res) == [op |-> op, res |-> res]

\* Notifications published so far, committed or pending in some session.
Published ==
    Len(notifs) + Cardinality({h \in Handlers : pc[h] # "idle"})

\* A request is taken by the first free handler.
Free(h) == pc[h] = "idle" /\ (h = "h2" => pc["h1"] # "idle")

\* A handler may begin a request that will publish a notification.
CanPublish(h) == Free(h) /\ Published < MaxNotifs

Quiescent == \A h \in Handlers : pc[h] = "idle"

Init ==
    /\ now = 1
    /\ following = [e \in Users \X Users |-> 0]
    /\ msgs = <<>>
    /\ last_read = [u \in Users |-> 0]
    /\ notifs = <<>>
    /\ tasks = <<>>
    /\ posts = <<>>
    /\ pc = [h \in Handlers |-> "idle"]
    /\ sess = [h \in Handlers |-> EmptySession]
    /\ last = Response("none", "none")
    /\ since_seen = 0
    /\ inbox = <<>>

\* The clock advances between any two steps, or not: two steps may fall in
\* the same tick.
Tick ==
    /\ now < MaxTime
    /\ now' = now + 1
    /\ UNCHANGED <<store, pc, sess, last, client>>

\* ------------------------------------------------------------- social graph
\* User.follow (specification 4.1): a no-op when the edge exists, otherwise
\* the edge is created.
UserFollow(f, a, b) ==
    IF f[<<a, b>>] > 0 THEN f ELSE [f EXCEPT ![<<a, b>>] = @ + 1]

\* User.unfollow (specification 4.1): a no-op when the edge is absent,
\* otherwise the edge is removed.
UserUnfollow(f, a, b) ==
    IF f[<<a, b>>] > 0 THEN [f EXCEPT ![<<a, b>>] = 0] ELSE f

\* User.is_following (specification 4.1).
IsFollowing(a, b) == following[<<a, b>>] > 0

\* Follow without the check of lines 161-163: a user may follow themself.
FollowNoSelfCheck(cu, username) ==
    /\ IF username \notin Users
         THEN /\ last' = Response("follow", "NotFound")
              /\ UNCHANGED following
         ELSE /\ following' = UserFollow(following, cu, username)
              /\ last' = Response("follow", "ok")
    /\ UNCHANGED <<now, msgs, last_read, notifs, tasks, posts, pc, sess,
                   client>>

\* POST /follow/<username> by current_user cu (with a valid form: form
\* validation is the web framework's).
Follow(cu, username) ==
    /\ IF username \notin Users
         THEN /\ last' = Response("follow", "NotFound")
              /\ UNCHANGED following
         ELSE IF username = cu
         THEN /\ last' = Response("follow", "InvalidOperation")
              /\ UNCHANGED following
         ELSE /\ following' = UserFollow(following, cu, username)
              /\ last' = Response("follow", "ok")
    /\ UNCHANGED <<now, msgs, last_read, notifs, tasks, posts, pc, sess,
                   client>>

\* Unfollow written as a copy of follow: line 184 calls current_user.follow.
UnfollowAsFollow(cu, username) ==
    /\ IF username \notin Users
         THEN /\ last' = Response("unfollow", "NotFound")
              /\ UNCHANGED following
         ELSE IF username = cu
         THEN /\ last' = Response("unfollow", "InvalidOperation")
              /\ UNCHANGED following
         ELSE /\ following' = UserFollow(following, cu, username)
              /\ last' = Response("unfollow", "ok")
    /\ UNCHANGED <<now, msgs, last_read, notifs, tasks, posts, pc, sess,
                   client>>

\* Unfollow that also removes the edge back: the followee stops following
\* current_user.
UnfollowBothWays(cu, username) ==
    /\ IF username \notin Users
         THEN /\ last' = Response("unfollow", "NotFound")
              /\ UNCHANGED following
         ELSE IF username = cu
         THEN /\ last' = Response("unfollow", "InvalidOperation")
              /\ UNCHANGED following
         ELSE /\ following' = UserUnfollow(
                    UserUnfollow(following, cu, username), username, cu)
              /\ last' = Response("unfollow", "ok")
    /\ UNCHANGED <<now, msgs, last_read, notifs, tasks, posts, pc, sess,
                   client>>

\* POST /unfollow/<username> by current_user cu.
Unfollow(cu, username) ==
    /\ IF username \notin Users
         THEN /\ last' = Response("unfollow", "NotFound")
              /\ UNCHANGED following
         ELSE IF username = cu
         THEN /\ last' = Response("unfollow", "InvalidOperation")
              /\ UNCHANGED following
         ELSE /\ following' = UserUnfollow(following, cu, username)
              /\ last' = Response("unfollow", "ok")
    /\ UNCHANGED <<now, msgs, last_read, notifs, tasks, posts, pc, sess,
                   client>>

\* ------------------------------------------------------------- notification stream
\* The largest timestamp among owner's notifications in ns (0: none).
LastTimestamp(ns, owner) ==
    LET ts == {ns[i].timestamp : i \in {j \in 1..Len(ns) : ns[j].owner = owner}}
    IN  IF ts = {} THEN 0 ELSE CHOOSE t \in ts : \A x \in ts : x <= t

\* User.add_notification, publish of specification 4.5: the new notification
\* takes max(now, lastTimestamp + epsilon), with lastTimestamp read from the
\* stream ns the publishing session sees.
AddNotification(ns, owner, name, data) ==
    [owner |-> owner, name |-> name, data |-> data,
     timestamp |-> Max(now, LastTimestamp(ns, owner) + 1)]

\* ------------------------------------------------------------- messaging
\* User.unread_message_count (specification 4.4) over the messages ms and
\* the watermark a session sees.
UnreadMessageCount(ms, watermark, u) ==
    Cardinality({i \in 1..Len(ms) :
                    ms[i].recipient = u /\ ms[i].timestamp > watermark})

\* unreadCount(user) on the committed store.
UnreadCount(u) == UnreadMessageCount(msgs, last_read[u], u)

\* A commit whose new notifications take the place of the stored ones of the
\* same owner and name instead of following them.
SessionCommitReplace(h, op) ==
    /\ msgs' = msgs \o sess[h].msgs
    /\ notifs' =
            SelectSeq(notifs,
                LAMBDA n : \A k \in 1..Len(sess[h].notifs) :
                    ~(sess[h].notifs[k].owner = n.owner
                      /\ sess[h].notifs[k].name = n.name))
            \o sess[h].notifs
    /\ tasks' = tasks \o sess[h].tasks
    /\ last_read' = IF sess[h].lmrt # 0
                      THEN [last_read EXCEPT ![sess[h].user] = sess[h].lmrt]
                      ELSE last_read
    /\ sess' = [sess EXCEPT ![h] = EmptySession]
    /\ pc' = [pc EXCEPT ![h] = "idle"]
    /\ last' = Response(op, "ok")
    /\ UNCHANGED <<now, following, posts, client>>

\* db.session.commit(): the handler's pending rows and watermark become part
\* of the store, and the request ends with the response res.
SessionCommit(h, op) ==
    /\ msgs' = msgs \o sess[h].msgs
    /\ notifs' = notifs \o sess[h].notifs
    /\ tasks' = tasks \o sess[h].tasks
    /\ last_read' = IF sess[h].lmrt # 0
                      THEN [last_read EXCEPT ![sess[h].user] = sess[h].lmrt]
                      ELSE last_read
    /\ sess' = [sess EXCEPT ![h] = EmptySession]
    /\ pc' = [pc EXCEPT ![h] = "idle"]
    /\ last' = Response(op, "ok")
    /\ UNCHANGED <<now, following, posts, client>>

\* send_message whose lookup never answers 404: a name that matches no user
\* resolves to the sender's own row.
SendMessageAddNo404(h, cu, recipient) ==
    /\ Free(h)
    /\ Published < MaxNotifs
    /\ LET user == IF recipient \in Users THEN recipient ELSE cu
       IN  sess' = [sess EXCEPT ![h] =
                [EmptySession EXCEPT
                    !.user = user,
                    !.msgs = <<[recipient |-> user, timestamp |-> now]>>]]
    /\ pc' = [pc EXCEPT ![h] = "sm_notify"]
    /\ UNCHANGED <<now, store, last, client>>

\* /send_message/<recipient>: the recipient is looked up (404 when unknown),
\* and on a valid POST the Message is added to the session.  A Message row
\* is kept as its recipient and creation timestamp: no route reads its author
\* or body.
SendMessageAdd(h, cu, recipient) ==
    /\ Free(h)
    /\ IF recipient \notin Users
         THEN /\ last' = Response("send_message", "NotFound")
              /\ UNCHANGED <<pc, sess>>
         ELSE /\ Published < MaxNotifs
              /\ sess' = [sess EXCEPT ![h] =
                    [EmptySession EXCEPT
                        !.user = recipient,
                        !.msgs = <<[recipient |-> recipient,
                                    timestamp |-> now]>>]]
              /\ pc' = [pc EXCEPT ![h] = "sm_notify"]
              /\ UNCHANGED last
    /\ UNCHANGED <<now, store, client>>

\* user.add_notification("unread_message_count", user.unread_message_count())
SendMessageNotify(h) ==
    /\ pc[h] = "sm_notify"
    /\ LET user == sess[h].user
           count == UnreadMessageCount(VisibleMsgs(h),
                                       VisibleLastRead(h, user), user)
       IN  sess' = [sess EXCEPT ![h].notifs =
                @ \o <<AddNotification(VisibleNotifs(h), user, UNREAD, count)>>]
    /\ pc' = [pc EXCEPT ![h] = "sm_commit"]
    /\ UNCHANGED <<now, store, last, client>>

\* db.session.commit() of send_message.
SendMessageCommit(h) ==
    /\ pc[h] = "sm_commit"
    /\ SessionCommit(h, "send_message")

\* messages without the assignment of line 249: the watermark is not moved.
MessagesMarkNoWatermark(h, cu) ==
    /\ CanPublish(h)
    /\ sess' = [sess EXCEPT ![h] = [EmptySession EXCEPT !.user = cu]]
    /\ pc' = [pc EXCEPT ![h] = "ms_notify"]
    /\ UNCHANGED <<now, store, last, client>>

\* /messages: current_user.last_message_read_time = datetime.now(timezone.utc)
MessagesMark(h, cu) ==
    /\ CanPublish(h)
    /\ sess' = [sess EXCEPT ![h] = [EmptySession EXCEPT !.user = cu, !.lmrt = now]]
    /\ pc' = [pc EXCEPT ![h] = "ms_notify"]
    /\ UNCHANGED <<now, store, last, client>>

\* current_user.add_notification("unread_message_count", 0)
MessagesNotify(h) ==
    /\ pc[h] = "ms_notify"
    /\ sess' = [sess EXCEPT ![h].notifs =
            @ \o <<AddNotification(VisibleNotifs(h), sess[h].user, UNREAD, 0)>>]
    /\ pc' = [pc EXCEPT ![h] = "ms_commit"]
    /\ UNCHANGED <<now, store, last, client>>

\* db.session.commit() of messages.
MessagesCommit(h) ==
    /\ pc[h] = "ms_commit"
    /\ SessionCommit(h, "messages")

\* ------------------------------------------------------------- polling
\* s, sorted by timestamp, with the row r put after the rows not later than it.
InsertByTimestamp(r, s) ==
    LET k == Cardinality({i \in 1..Len(s) : s[i].timestamp <= r.timestamp})
    IN  SubSeq(s, 1, k) \o <<r>> \o SubSeq(s, k + 1, Len(s))

\* .order_by(Notification.timestamp.asc()); rows of equal timestamp stay in
\* insertion order.
RECURSIVE OrderByTimestampAsc(_)
OrderByTimestampAsc(s) ==
    IF s = <<>> THEN <<>>
    ELSE InsertByTimestamp(s[Len(s)],
                           OrderByTimestampAsc(SubSeq(s, 1, Len(s) - 1)))

\* The query of line 285 with >= for >.
WhereNewerOrEqual(cu, since) ==
    SelectSeq(notifs, LAMBDA n : n.owner = cu /\ n.timestamp >= since)

\* current_user.notifications.select().where(Notification.timestamp > since)
WhereNewer(cu, since) ==
    SelectSeq(notifs, LAMBDA n : n.owner = cu /\ n.timestamp > since)

\* The list /notifications returns: name, data and timestamp of every row of
\* the query.
NotificationsQuery(cu, since) ==
    LET rows == OrderByTimestampAsc(WhereNewer(cu, since))
    IN  [i \in 1..Len(rows) |->
            [name |-> rows[i].name, data |-> rows[i].data,
             timestamp |-> rows[i].timestamp]]

\* The largest timestamp of a response (0: empty).
NewestOf(body) ==
    LET ts == {body[i].timestamp : i \in 1..Len(body)}
    IN  IF ts = {} THEN 0 ELSE CHOOSE t \in ts : \A x \in ts : x <= t

\* GET /notifications?since=<since_seen> by the polling client of ClientUser:
\* it asks for everything since the largest timestamp it has received, keeps
\* what it gets and moves that timestamp.
ClientPoll ==
    LET body == NotificationsQuery(ClientUser, since_seen)
    IN  /\ inbox' = inbox \o body
        /\ since_seen' = Max(since_seen, NewestOf(body))
        /\ last' = Response("notifications", "ok")
        /\ UNCHANGED <<now, store, pc, sess>>

\* ------------------------------------------------------------- task tracker
\* User.get_task_in_progress (specification 4.6) over the tasks ts a session
\* sees: whether user has a task of that name that is not complete.
GetTaskInProgress(ts, user, name) ==
    \E i \in 1..Len(ts) :
        ts[i].user = user /\ ts[i].name = name /\ ~ts[i].complete

\* export_posts without the check of line 271: every request launches.
ExportPostsCheckNever(h, cu) ==
    /\ Free(h)
    /\ Published < MaxNotifs
    /\ sess' = [sess EXCEPT ![h] = [EmptySession EXCEPT !.user = cu]]
    /\ pc' = [pc EXCEPT ![h] = "ex_launch"]
    /\ UNCHANGED <<now, store, last, client>>

\* /export_posts: if current_user.get_task_in_progress("export_posts") the
\* request ends with the flashed message, otherwise it goes on to launch.
ExportPostsCheck(h, cu) ==
    /\ Free(h)
    /\ IF GetTaskInProgress(tasks, cu, EXPORT)
         THEN /\ last' = Response(EXPORT, "TaskAlreadyActive")
              /\ UNCHANGED <<pc, sess>>
         ELSE /\ Published < MaxNotifs
              /\ sess' = [sess EXCEPT ![h] = [EmptySession EXCEPT !.user = cu]]
              /\ pc' = [pc EXCEPT ![h] = "ex_launch"]
              /\ UNCHANGED last
    /\ UNCHANGED <<now, store, client>>

\* The steps of an export a worker reports on.
TaskTotal == 2

\* The payload of a task's notification: {current, total}.
Progress(current) == [current |-> current, total |-> TaskTotal]

\* User.launch_task (specification 4.6): the RUNNING task record and the
\* initial notification (progress 0), both pending in the session.
LaunchTask(h, name) ==
    [sess[h] EXCEPT
        !.tasks = @ \o <<[user |-> sess[h].user, name |-> name,
                          complete |-> FALSE, result |-> "none"]>>,
        !.notifs = @ \o <<AddNotification(VisibleNotifs(h), sess[h].user,
                                          name, Progress(0))>>]

\* export_posts that adds the Task row itself and leaves the first
\* notification to the worker.
ExportPostsLaunchTaskOnly(h) ==
    /\ pc[h] = "ex_launch"
    /\ sess' = [sess EXCEPT ![h].tasks =
            @ \o <<[user |-> sess[h].user, name |-> EXPORT,
                    complete |-> FALSE, result |-> "none"]>>]
    /\ pc' = [pc EXCEPT ![h] = "ex_commit"]
    /\ UNCHANGED <<now, store, last, client>>

\* current_user.launch_task("export_posts", ...)
ExportPostsLaunch(h) ==
    /\ pc[h] = "ex_launch"
    /\ sess' = [sess EXCEPT ![h] = LaunchTask(h, EXPORT)]
    /\ pc' = [pc EXCEPT ![h] = "ex_commit"]
    /\ UNCHANGED <<now, store, last, client>>

\* A commit of export_posts that, when the user has a complete export task,
\* takes that record into use again instead of storing a new one.
ExportPostsCommitReopen(h) ==
    /\ pc[h] = "ex_commit"
    /\ tasks' =
            IF \E i \in 1..Len(tasks) :
                    tasks[i].user = sess[h].user /\ tasks[i].complete
              THEN [i \in 1..Len(tasks) |->
                        IF tasks[i].user = sess[h].user
                          THEN [tasks[i] EXCEPT !.complete = FALSE,
                                                !.result = "none"]
                          ELSE tasks[i]]
              ELSE tasks \o sess[h].tasks
    /\ notifs' = notifs \o sess[h].notifs
    /\ sess' = [sess EXCEPT ![h] = EmptySession]
    /\ pc' = [pc EXCEPT ![h] = "idle"]
    /\ last' = Response(EXPORT, "ok")
    /\ UNCHANGED <<now, following, msgs, last_read, posts, client>>

\* db.session.commit() of export_posts.
ExportPostsCommit(h) ==
    /\ pc[h] = "ex_commit"
    /\ SessionCommit(h, EXPORT)

\* reportProgress (specification 4.6) by the background worker of the running
\* task i: a notification under the task's type name; the task is unchanged.
ReportProgress(i) ==
    /\ i \in 1..Len(tasks)
    /\ ~tasks[i].complete
    /\ Published < MaxNotifs
    /\ notifs' = Append(notifs,
            AddNotification(notifs, tasks[i].user, tasks[i].name, Progress(1)))
    /\ UNCHANGED <<now, following, msgs, last_read, tasks, posts, pc, sess,
                   last, client>>

\* complete (specification 4.6) by the background worker of the running task
\* i: the task is marked complete with its result, and a final notification
\* is published.
Complete(i) ==
    /\ i \in 1..Len(tasks)
    /\ ~tasks[i].complete
    /\ Published < MaxNotifs
    /\ tasks' = [tasks EXCEPT ![i] = [@ EXCEPT !.complete = TRUE,
                                               !.result = "file"]]
    /\ notifs' = Append(notifs,
            AddNotification(notifs, tasks[i].user, tasks[i].name,
                            Progress(TaskTotal)))
    /\ UNCHANGED <<now, following, msgs, last_read, posts, pc, sess, last,
                   client>>

\* ------------------------------------------------------------- post ledger
\* langdetect.detect(text): the language tag of the text, or
\* LangDetectException when the text has no features to detect from.
Detect(body) == IF body = "1234" THEN LangDetectException ELSE "en"

\* A Post row as the ledger stores it (specification 3): the identifier is
\* the next in insertion order, the creation timestamp is the clock's.
NewPost(cu, body, language) ==
    [id |-> Len(posts) + 1, author |-> cu, body |-> body,
     language |-> language, timestamp |-> now]

\* index without the try/except of lines 51-54: the detector's exception ends
\* the request, and nothing is stored.
CreatePostNoCatch(cu, body) ==
    /\ Len(posts) < MaxPosts
    /\ IF Detect(body) = LangDetectException
         THEN /\ last' = Response("index", LangDetectException)
              /\ UNCHANGED posts
         ELSE /\ posts' = Append(posts, NewPost(cu, body, Detect(body)))
              /\ last' = Response("index", "ok")
    /\ UNCHANGED <<now, following, msgs, last_read, notifs, tasks, pc, sess,
                   client>>

\* POST / (or /index) by current_user cu with a valid form: the language is
\* detected, "" when the detector raises; the Post is added and committed.
CreatePost(cu, body) ==
    /\ Len(posts) < MaxPosts
    /\ LET language == IF Detect(body) = LangDetectException
                         THEN ""
                         ELSE Detect(body)
       IN  posts' = Append(posts, NewPost(cu, body, language))
    /\ last' = Response("index", "ok")
    /\ UNCHANGED <<now, following, msgs, last_read, notifs, tasks, pc, sess,
                   client>>

\* ------------------------------------------------------------- feed composer
\* followedFeedAuthors (specification 4.1): the user and everyone the user
\* follows.
FollowedFeedAuthors(u) == {u} \cup {b \in Users : IsFollowing(u, b)}

\* s, sorted newest first, with the row r put before the rows that are older
\* or, at the same timestamp, of a lower identifier.
InsertByTimestampDesc(r, s) ==
    LET k == Cardinality({i \in 1..Len(s) :
                \/ s[i].timestamp > r.timestamp
                \/ s[i].timestamp = r.timestamp /\ s[i].id > r.id})
    IN  SubSeq(s, 1, k) \o <<r>> \o SubSeq(s, k + 1, Len(s))

\* Ordered by creation timestamp descending, ties by higher identifier first
\* (specification 4.3).
RECURSIVE OrderByTimestampDesc(_)
OrderByTimestampDesc(s) ==
    IF s = <<>> THEN <<>>
    ELSE InsertByTimestampDesc(s[1], OrderByTimestampDesc(Tail(s)))

\* User.following_posts (specification 4.3): the posts whose author is in
\* followedFeedAuthors(user), newest first.
FollowingPosts(u) ==
    OrderByTimestampDesc(
        SelectSeq(posts, LAMBDA p : p.author \in FollowedFeedAuthors(u)))

\* db.paginate whose first page is page 0: page 1 begins after per_page rows.
PaginateFromZero(rows, page, per_page) ==
    SubSeq(rows, page * per_page + 1,
           IF (page + 1) * per_page <= Len(rows)
             THEN (page + 1) * per_page ELSE Len(rows))

\* db.paginate(query, page=page, per_page=per_page, error_out=False).items:
\* the rows of that page, none for a page past the end.
Paginate(rows, page, per_page) ==
    SubSeq(rows, (page - 1) * per_page + 1,
           IF page * per_page <= Len(rows) THEN page * per_page ELSE Len(rows))

\* posts.items of GET /index?page=<page> by current_user cu.
IndexPage(cu, page) == Paginate(FollowingPosts(cu), page, PostsPerPage)

\* posts.has_next of that page: there are rows after it.
HasNext(cu, page) == page * PostsPerPage < Len(FollowingPosts(cu))

\* homeFeed(user): the pages of the index, from the first one along next_url
\* for as long as there is a next page.
RECURSIVE PagesFrom(_, _)
PagesFrom(cu, page) ==
    IndexPage(cu, page) \o
        (IF HasNext(cu, page) THEN PagesFrom(cu, page + 1) ELSE <<>>)

HomeFeed(cu) == PagesFrom(cu, 1)

\* ------------------------------------------------------------- next-state
\* A handler begins a messaging request.
StartStep ==
    \/ \E h \in Handlers, cu \in Users, n \in Names : SendMessageAdd(h, cu, n)
    \/ \E h \in Handlers, cu \in Users : MessagesMark(h, cu)

\* A handler takes the next step of its messaging request.
ContinueStep ==
    \/ \E h \in Handlers : SendMessageNotify(h)
    \/ \E h \in Handlers : SendMessageCommit(h)
    \/ \E h \in Handlers : MessagesNotify(h)
    \/ \E h \in Handlers : MessagesCommit(h)

\* A step of an /export_posts request.
ExportStep ==
    \/ \E h \in Handlers, cu \in Users : ExportPostsCheck(h, cu)
    \/ \E h \in Handlers : ExportPostsLaunch(h)
    \/ \E h \in Handlers : ExportPostsCommit(h)

\* A background worker reports on its task.
WorkerStep ==
    \/ \E i \in 1..MaxNotifs : ReportProgress(i)
    \/ \E i \in 1..MaxNotifs : Complete(i)

\* The routes that are one store operation and one commit.
GraphStep ==
    \/ \E cu \in Users, n \in Names : Follow(cu, n)
    \/ \E cu \in Users, n \in Names : Unfollow(cu, n)

\* A post is created.
PostStep == \E cu \in Users, body \in Bodies : CreatePost(cu, body)

\* The messaging channel and the notification stream: concurrent handlers,
\* their steps interleaved, and the polling client.
Next ==
    \/ StartStep
    \/ ContinueStep
    \/ ClientPoll
    \/ Tick

Spec == Init /\ [][Next]_vars

\* The task tracker: concurrent /export_posts handlers, their steps
\* interleaved, the background workers and the polling client.
NextTasks ==
    \/ ExportStep
    \/ WorkerStep
    \/ ClientPoll
    \/ Tick

SpecTasks == Init /\ [][NextTasks]_vars

\* The social graph and the messaging channel, one request at a time: a
\* request begins only when no handler is in the middle of one.
NextSeq ==
    \/ Quiescent /\ StartStep
    \/ ContinueStep
    \/ Quiescent /\ GraphStep
    \/ Tick

SpecSeq == Init /\ [][NextSeq]_vars

\* The task tracker, one request at a time.
NextTasksSeq ==
    \/ Quiescent /\ (\E h \in Handlers, cu \in Users : ExportPostsCheck(h, cu))
    \/ \E h \in Handlers : ExportPostsLaunch(h)
    \/ \E h \in Handlers : ExportPostsCommit(h)
    \/ Quiescent /\ WorkerStep
    \/ Tick

SpecTasksSeq == Init /\ [][NextTasksSeq]_vars

\* The social graph and the post ledger, which the feed is composed of.
NextFeed ==
    \/ GraphStep
    \/ PostStep
    \/ Tick

SpecFeed == Init /\ [][NextFeed]_vars

\* ------------------------------------------------------------- properties
\* The non-complete tasks of a user and task type in the store.
ActiveTasks(u, name) ==
    {i \in 1..Len(tasks) :
        tasks[i].user = u /\ tasks[i].name = name /\ ~tasks[i].complete}

\* C1: under concurrent /export_posts requests of one user, exactly one launch
\* succeeds and the other is rejected: no reachable state holds two
\* non-complete tasks of the same user and task type.
C1_AtMostOneActiveTask ==
    \A u \in Users : Cardinality(ActiveTasks(u, EXPORT)) <= 1

\* C2: with requests handled one after the other, a launch while the user has
\* a non-complete export task is rejected with TaskAlreadyActive and creates
\* no task record (nothing is stored, nothing is left pending); a launch with
\* no such task, so also the one after complete, goes on and its commit
\* stores exactly one new RUNNING task of that user; so the user never has
\* two non-complete export tasks.
C2_SequentialLaunch ==
    [][ /\ \A h \in Handlers, cu \in Users :
            ExportPostsCheck(h, cu) =>
                IF ActiveTasks(cu, EXPORT) # {}
                  THEN /\ last' = Response(EXPORT, "TaskAlreadyActive")
                       /\ UNCHANGED <<store, pc, sess>>
                  ELSE pc'[h] = "ex_launch" /\ sess'[h].user = cu
        /\ \A h \in Handlers :
            ExportPostsCommit(h) =>
                /\ Len(tasks') = Len(tasks) + 1
                /\ SubSeq(tasks', 1, Len(tasks)) = tasks
                /\ tasks'[Len(tasks')].user = sess[h].user
                /\ tasks'[Len(tasks')].name = EXPORT
                /\ ~tasks'[Len(tasks')].complete
                /\ last' = Response(EXPORT, "ok")
        /\ \A u \in Users : Cardinality(ActiveTasks(u, EXPORT)') <= 1
      ]_vars

\* C2's case: a user's export was launched and completed, launched again, and
\* a further launch has just been rejected.
C2_Witness ==
    /\ Len(tasks) = 2
    /\ tasks[1].user = tasks[2].user
    /\ tasks[1].complete /\ ~tasks[2].complete
    /\ last = Response(EXPORT, "TaskAlreadyActive")

\* The stored notifications of owner, as their positions in the stream.
RowsOf(owner) == {i \in 1..Len(notifs) : notifs[i].owner = owner}

\* C3: every publish takes a timestamp strictly greater than every timestamp
\* already in its owner's stream, so no two notifications of one owner have
\* equal timestamps.
C3_StrictlyIncreasingTimestamps ==
    \A owner \in Users : \A i, j \in RowsOf(owner) :
        i # j => notifs[i].timestamp # notifs[j].timestamp

\* What /notifications makes of a stored row.
AsRecord(n) == [name |-> n.name, data |-> n.data, timestamp |-> n.timestamp]

\* How often the record r occurs in the sequence of records s.
Occurrences(s, r) == Cardinality({k \in 1..Len(s) : s[k] = r})

\* C4: the client that polls with the largest timestamp it has received gets
\* every notification of its owner exactly once: what it holds is exactly the
\* owner's notifications up to that timestamp (later ones are still to come,
\* earlier ones can no longer be asked for), each as often as it was published.
C4_NoMissNoDuplicate ==
    \A i \in RowsOf(ClientUser) :
        LET r == AsRecord(notifs[i])
        IN  Occurrences(inbox, r) =
                IF r.timestamp <= since_seen
                  THEN Cardinality({j \in RowsOf(ClientUser) :
                                        AsRecord(notifs[j]) = r})
                  ELSE 0

\* The timestamps a poll may ask for.
SinceValues == 0..(MaxTime + MaxNotifs)

\* C5: since(owner, t) is exactly the owner's notifications with a timestamp
\* greater than t (each as often as it is stored, none of another owner), in
\* ascending timestamp order, and a poll leaves the store as it was.
C5_SinceQuery ==
    /\ [](\A cu \in Users, t \in SinceValues :
            LET body == NotificationsQuery(cu, t)
                newer == {i \in RowsOf(cu) : notifs[i].timestamp > t}
            IN  /\ Len(body) = Cardinality(newer)
                /\ \A i \in newer :
                      Occurrences(body, AsRecord(notifs[i])) =
                          Cardinality({j \in newer :
                              AsRecord(notifs[j]) = AsRecord(notifs[i])})
                /\ \A k \in 1..Len(body) : body[k].timestamp > t
                /\ \A k \in 1..(Len(body) - 1) :
                      body[k].timestamp <= body[k + 1].timestamp)
    /\ [][ClientPoll => UNCHANGED store]_vars

\* C5's case: the client has polled a stream that also holds another owner's
\* notifications and in which a later timestamp was stored before an earlier
\* one.
C5_Witness ==
    /\ inbox # <<>>
    /\ RowsOf("u2") # {}
    /\ \E i, j \in RowsOf(ClientUser) :
          i < j /\ notifs[i].timestamp > notifs[j].timestamp

\* The notification a commit has just stored is one of owner, named name,
\* with payload data, and it is the only one stored.
PublishedOne(owner, name, data) ==
    /\ Len(notifs') = Len(notifs) + 1
    /\ SubSeq(notifs', 1, Len(notifs)) = notifs
    /\ notifs'[Len(notifs')].owner = owner
    /\ notifs'[Len(notifs')].name = name
    /\ notifs'[Len(notifs')].data = data

\* C6: sending a message to an existing user raises the recipient's unread
\* count by exactly 1 and publishes exactly one unread_message_count
\* notification to the recipient, whose payload is the recipient's unread
\* count once the message is stored.
C6_SendMessageCountsUnread ==
    [][\A h \in Handlers, u \in Users :
        SendMessageCommit(h) /\ sess[h].user = u =>
            /\ UnreadCount(u)' = UnreadCount(u) + 1
            /\ PublishedOne(u, UNREAD, UnreadCount(u)')
      ]_vars

\* C7: markAllRead sets the watermark to the current time, leaves the user
\* with an unread count of 0, and publishes one unread_message_count
\* notification with payload 0 on every call.
C7_MarkAllRead ==
    [][ /\ \A h \in Handlers, cu \in Users :
            MessagesMark(h, cu) => sess'[h].user = cu /\ sess'[h].lmrt = now
        /\ \A h \in Handlers, u \in Users :
            MessagesCommit(h) /\ sess[h].user = u =>
                /\ last_read'[u] = sess[h].lmrt
                /\ UnreadCount(u)' = 0
                /\ PublishedOne(u, UNREAD, 0)
      ]_vars

\* C7's case: a user with a received message has marked all read, and again
\* when the count was already 0.
C7_Witness ==
    \E u \in Users :
        /\ last = Response("messages", "ok")
        /\ \E k \in 1..Len(msgs) : msgs[k].recipient = u
        /\ UnreadCount(u) = 0
        /\ Len(notifs) = 3
        /\ \A i \in 2..3 : notifs[i].owner = u /\ notifs[i].data = 0

C9_NoSelfFollow ==
    /\ [](\A a \in Users : following[<<a, a>>] = 0)
    /\ [][\A a \in Users :
            /\ Follow(a, a) =>
                    /\ last' = Response("follow", "InvalidOperation")
                    /\ UNCHANGED <<store, pc, sess>>
            /\ Unfollow(a, a) =>
                    /\ last' = Response("unfollow", "InvalidOperation")
                    /\ UNCHANGED <<store, pc, sess>>
         ]_vars

\* C9's case: a user who follows somebody has just tried to unfollow
\* themself.
C9_Witness ==
    /\ last = Response("unfollow", "InvalidOperation")
    /\ \E a \in Users, b \in Users : IsFollowing(a, b)

\* C10: follow, unfollow and send_message with a username that names no user
\* end with NotFound and change nothing: no edge, no message, no
\* notification, stored or pending.
C10_UnknownUserNotFound ==
    [][\A cu \in Users, n \in Names \ Users :
        /\ Follow(cu, n) =>
                /\ last' = Response("follow", "NotFound")
                /\ UNCHANGED <<store, pc, sess>>
        /\ Unfollow(cu, n) =>
                /\ last' = Response("unfollow", "NotFound")
                /\ UNCHANGED <<store, pc, sess>>
        /\ \A h \in Handlers :
            SendMessageAdd(h, cu, n) =>
                /\ last' = Response("send_message", "NotFound")
                /\ UNCHANGED <<store, pc, sess>>
      ]_vars

\* C10's case: after a message and a follow went through, a message to an
\* unknown recipient has just been refused.
C10_Witness ==
    /\ last = Response("send_message", "NotFound")
    /\ msgs # <<>>
    /\ \E a \in Users, b \in Users : IsFollowing(a, b)

\* The stored posts the home feed of u is to show: those of u and of the
\* users u follows at present.
FeedPostsOf(u) ==
    {i \in 1..Len(posts) :
        posts[i].author = u \/ IsFollowing(u, posts[i].author)}

\* C11: after any sequence of follow, unfollow and createPost, homeFeed(user)
\* holds exactly the posts whose author is the user or somebody the user
\* follows at present, each once and no post of another author, newest
\* first, posts of equal timestamp by higher identifier first.
C11_HomeFeed ==
    \A u \in Users :
        LET feed == HomeFeed(u)
        IN  /\ Len(feed) = Cardinality(FeedPostsOf(u))
            /\ \A i \in FeedPostsOf(u) :
                  \E k \in 1..Len(feed) : feed[k] = posts[i]
            /\ \A k \in 1..Len(feed) :
                  feed[k].author = u \/ IsFollowing(u, feed[k].author)
            /\ \A k \in 1..(Len(feed) - 1) :
                  \/ feed[k].timestamp > feed[k + 1].timestamp
                  \/ /\ feed[k].timestamp = feed[k + 1].timestamp
                     /\ feed[k].id > feed[k + 1].id

\* C11's case: u1 follows u2 and u2 does not follow u1, after an unfollow;
\* both have posted, two posts in the same tick, and u1's feed runs over
\* more than one page while u2's leaves u1's posts out.
C11_Witness ==
    /\ IsFollowing("u1", "u2") /\ ~IsFollowing("u2", "u1")
    /\ Len(posts) = 3
    /\ \E i, j \in 1..3 : posts[i].author = "u1" /\ posts[j].author = "u2"
    /\ \E i, j \in 1..3 : i # j /\ posts[i].timestamp = posts[j].timestamp
    /\ posts[1].timestamp < posts[3].timestamp
    /\ Len(HomeFeed("u1")) = 3
    /\ HasNext("u1", 1)
    /\ Len(HomeFeed("u2")) < 3
    /\ last = Response("unfollow", "ok")

\* C14: createPost never fails because of language detection: when the
\* detector fails on the body the post is stored all the same, with an empty
\* language tag, and the request ends as it does for any other post.
C14_CreatePostSurvivesDetection ==
    [][\A cu \in Users, body \in Bodies :
        CreatePost(cu, body) =>
            /\ Len(posts') = Len(posts) + 1
            /\ SubSeq(posts', 1, Len(posts)) = posts
            /\ posts'[Len(posts')].author = cu
            /\ posts'[Len(posts')].body = body
            /\ Detect(body) = LangDetectException =>
                    posts'[Len(posts')].language = ""
            /\ Detect(body) # LangDetectException =>
                    posts'[Len(posts')].language = Detect(body)
            /\ last' = Response("index", "ok")
      ]_vars

\* C14's case: after a post whose language was detected, a post the detector
\* failed on has just been stored.
C14_Witness ==
    /\ last = Response("index", "ok")
    /\ Len(posts) >= 2
    /\ posts[Len(posts)].body = "1234"
    /\ posts[Len(posts)].language = ""
    /\ \E i \in 1..Len(posts) : posts[i].language = "en"

\* C15: follow(a, b) and unfollow(a, b) change at most the edge (a, b): every
\* other edge stays as it was, no notification is published, stored or
\* pending, to any user, and nothing else of the store changes; unfollow(a, b)
\* with no edge (a, b) succeeds and changes nothing.
C15_FollowFrame ==
    [][\A a \in Users, n \in Names :
        Follow(a, n) \/ Unfollow(a, n) =>
            /\ \A e \in Users \X Users :
                    e # <<a, n>> => following'[e] = following[e]
            /\ UNCHANGED <<msgs, last_read, notifs, tasks, posts, pc, sess>>
            /\ (Unfollow(a, n) /\ n \in Users \ {a} /\ ~IsFollowing(a, n)) =>
                    /\ last' = Response("unfollow", "ok")
                    /\ UNCHANGED following
      ]_vars

\* C15's case: while u2 follows u1 and a notification is in the stream, u1,
\* who does not follow u2, has just unfollowed u2.
C15_Witness ==
    /\ last = Response("unfollow", "ok")
    /\ IsFollowing("u2", "u1") /\ ~IsFollowing("u1", "u2")
    /\ notifs # <<>>

\* C12: the notification stream is append-only: every step leaves the stored
\* notifications as they are, in place and unchanged, and at most adds new
\* ones after them, also when the new one has the name of an earlier one of
\* the same owner; so what an owner has in a later state includes what the
\* owner had in any earlier one.
C12_AppendOnly ==
    [][ /\ Len(notifs') >= Len(notifs)
        /\ SubSeq(notifs', 1, Len(notifs)) = notifs
        /\ \A owner \in Users :
              Cardinality(RowsOf(owner)') >= Cardinality(RowsOf(owner))
      ]_vars

\* C12's case: an owner has three unread_message_count notifications, of
\* different payloads, all of them still in the stream.
C12_Witness ==
    \E owner \in Users :
        /\ Len(notifs) = 3
        /\ \A i \in 1..3 : notifs[i].owner = owner /\ notifs[i].name = UNREAD
        /\ notifs[1].data # notifs[2].data
        /\ notifs[3].data = 0

\* The tasks of user u and type name among the task rows ts.
TasksOf(ts, u, name) ==
    {i \in 1..Len(ts) : ts[i].user = u /\ ts[i].name = name}

\* The initial notifications (progress 0) of owner u under name among the
\* notification rows ns.
InitialNotifs(ns, u, name) ==
    {j \in 1..Len(ns) :
        ns[j].owner = u /\ ns[j].name = name /\ ns[j].data = Progress(0)}

\* C13: a launch creates the RUNNING task record and publishes the initial
\* notification (progress 0) in one step: in the store, and in every
\* handler's session, every launched task of a user has its initial
\* notification in the user's stream, so no state holds a launched task
\* without it.
C13_LaunchPublishesInitial ==
    \A u \in Users :
        /\ Cardinality(TasksOf(tasks, u, EXPORT)) =
                Cardinality(InitialNotifs(notifs, u, EXPORT))
        /\ \A h \in Handlers :
                Cardinality(TasksOf(sess[h].tasks, u, EXPORT)) =
                    Cardinality(InitialNotifs(sess[h].notifs, u, EXPORT))

\* C13's case: a user's first export was launched and has completed, and
\* the user's next launch is in a handler's session, not yet committed.
C13_Witness ==
    \E h \in Handlers :
        /\ pc[h] = "ex_commit"
        /\ Len(tasks) = 1 /\ tasks[1].complete
        /\ sess[h].user = tasks[1].user
        /\ Len(sess[h].tasks) = 1

\* C16: a task only moves NONE -> RUNNING -> COMPLETE.  A task record enters
\* the store RUNNING; a COMPLETE record never changes again; a RUNNING record
\* changes only by complete, which sets the flag, stores the result and
\* publishes one final notification under the task's type name;
\* reportProgress publishes one notification under the task's type name with
\* the progress as payload and leaves every task record, so also the
\* completion flag, as it was.
C16_TaskLifecycle ==
    [][ /\ Len(tasks') >= Len(tasks)
        /\ \A i \in 1..Len(tasks) :
              /\ tasks[i].complete => tasks'[i] = tasks[i]
              /\ tasks'[i] # tasks[i] => Complete(i)
        /\ \A i \in (Len(tasks) + 1)..Len(tasks') :
              ~tasks'[i].complete /\ tasks'[i].result = "none"
        /\ \A i \in 1..MaxNotifs :
              /\ ReportProgress(i) =>
                    /\ tasks' = tasks
                    /\ ~tasks'[i].complete
                    /\ PublishedOne(tasks[i].user, tasks[i].name, Progress(1))
              /\ Complete(i) =>
                    /\ tasks' = [tasks EXCEPT ![i] =
                            [tasks[i] EXCEPT !.complete = TRUE,
                                             !.result = "file"]]
                    /\ PublishedOne(tasks[i].user, tasks[i].name,
                                    Progress(TaskTotal))
      ]_vars

\* C16's case: a task was launched, has reported progress and has completed:
\* its three notifications are in its owner's stream and its result is stored.
C16_Witness ==
    /\ Len(tasks) = 1
    /\ tasks[1].complete /\ tasks[1].result = "file"
    /\ Len(notifs) = 3
    /\ \A j \in 1..3 :
          notifs[j].owner = tasks[1].user /\ notifs[j].name = tasks[1].name
    /\ notifs[1].data = Progress(0)
    /\ notifs[2].data = Progress(1)
    /\ notifs[3].data = Progress(TaskTotal)

\* The stored unread_message_count notifications of u.
UnreadNotifs(u) == {i \in RowsOf(u) : notifs[i].name = UNREAD}

\* Those of them with the largest timestamp: the most recent.
MostRecentUnread(u) ==
    {i \in UnreadNotifs(u) :
        \A j \in UnreadNotifs(u) : notifs[j].timestamp <= notifs[i].timestamp}

\* C17: whenever no handler is in the middle of a request, the payload of a
\* user's most recent unread_message_count notification is the user's unread
\* count, whatever the interleaving of the steps of concurrent send_message
\* requests to the user and messages requests of the user.
C17_PayloadIsUnreadCount ==
    Quiescent =>
        \A u \in Users :
            UnreadNotifs(u) # {} =>
                \E i \in MostRecentUnread(u) : notifs[i].data = UnreadCount(u)
====
